---------------------------- MODULE Spec2Model ----------------------------
(***************************************************************************)
(* A model of scripts/planners_evaluation.py: the OLOP budget allocation   *)
(* (olop_horizon, allocate), the trial grid (prepare_experiments), the     *)
(* worker pool of main() running evaluate() against one shared csv store,  *)
(* and the aggregation of the store (plot_all).                            *)
(*                                                                         *)
(* Four specifications share the variables:                                *)
(*   SpecAlloc  one call of allocate(budget), one loop iteration per step  *)
(*   SpecGrid   two successive calls of prepare_experiments                *)
(*   Spec       main(): prepare_experiments, Pool.map(evaluate), plot_all  *)
(*   SpecPlot   plot_all on an arbitrary store found on disk               *)
(***************************************************************************)
EXTENDS Integers, Sequences, FiniteSets, TLC

VARIABLES
    \* ---- allocate(budget) ----
    a_budget,       \* the argument of allocate
    a_pc,           \* "idle" | "loop" | "after" | "returned" | "raised"
    a_next,         \* the next value range(1, budget) will yield
    episodes,       \* the local variable episodes
    episodes_bound, \* whether the name episodes has been bound at all
    horizon,        \* the local variable horizon
    a_broke,        \* whether the loop left through its break
    \* ---- prepare_experiments(budgets, seeds, path), called repeatedly ----
    g_budgets,      \* the --budgets string, as a sequence of characters
    g_seeds,        \* the --seeds string, as a sequence of characters
    calls,          \* the outcomes of the calls made so far
    \* ---- main(args) ----
    args,           \* the parsed command line
    mainpc,         \* "idle" | "start" | "map" | "show" | "done" | "raised"
    experiments,    \* the list prepare_experiments returned to main
    taskqueue,      \* the chunks of Pool.map not yet taken by a worker
    chunks_left,    \* MapResult._number_left
    failure,        \* MapResult._success = False
    wpc,            \* per worker: "none" | "idle" | "compute" | "open" | "dead"
    wchunk,         \* per worker: the chunk it is running
    witem,          \* per worker: index in its chunk of the running trial
    heap,           \* per worker: the unpickled agent config dicts, by identity
    pos,            \* per worker: position of its open file object
    result,         \* per worker: the result record of the running trial
    store,          \* the lines of the file at --data_path
    store0,         \* the lines the file had before main started
    exec_count,     \* per descriptor: how many times evaluate() started on it
    raised_trials,  \* the descriptors whose evaluate() raised
    \* ---- plot_all(data_path, ...) ----
    plotpc,         \* "idle" | "start" | "returned" | "raised"
    table           \* the regret-augmented data frame

allocVars == <<a_budget, a_pc, a_next, episodes, episodes_bound, horizon, a_broke>>
gridVars  == <<g_budgets, g_seeds, calls>>
poolVars  == <<taskqueue, chunks_left, failure, wpc, wchunk, witem, heap, pos,
               result, exec_count, raised_trials>>
mainVars  == <<args, mainpc, experiments, poolVars, store0>>
plotVars  == <<plotpc, table>>
vars      == <<allocVars, gridVars, mainVars, store, plotVars>>

-----------------------------------------------------------------------------
(* Bounds of the model.                                                    *)

MaxBudget == 60         \* allocate is called with budget in 0..MaxBudget
MaxAgents == 2          \* the registry is cut to its first MaxAgents entries
MaxExponent == 2        \* exponents of a --budgets string are in 0..MaxExponent
MaxPoints == 3          \* its number of points is in 0..MaxPoints
MaxSeedCount == 2       \* the count of a --seeds string is in 0..MaxSeedCount
MaxFirstSeed == 1       \* first seeds, given or drawn, are in 0..MaxFirstSeed
MaxCalls == 2           \* prepare_experiments is called MaxCalls times in SpecGrid
MaxProcesses == 2       \* --processes is in 1..MaxProcesses
MaxChunksize == 3       \* --chunksize is absent or in 0..MaxChunksize
MaxFailures == 1        \* at most MaxFailures trials of a batch raise
MaxLines == 3           \* a store found on disk by plot_all has 0..MaxLines lines

-----------------------------------------------------------------------------
(* olop_horizon and allocate.                                              *)

\* gamma = 0.9, kept as the fraction GammaNum / GammaDen
GammaNum == 9
GammaDen == 10

\* Fixed-point scale standing for float precision in olop_horizon.
Scale == 100000

\* (1 / gamma^2)^L in fixed point: exp(L * 2 * log(1 / gamma)).
RECURSIVE InvGammaSqPow(_)
InvGammaSqPow(L) ==
    IF L = 0 THEN Scale
    ELSE (InvGammaSqPow(L - 1) * GammaDen * GammaDen) \div (GammaNum * GammaNum)

\* The least L >= from with log(m) <= L * 2 * log(1 / gamma).
RECURSIVE CeilLogRatio(_, _)
CeilLogRatio(from, m) ==
    IF InvGammaSqPow(from) >= m * Scale THEN from ELSE CeilLogRatio(from + 1, m)

\* int(np.ceil(np.log(episodes) / (2 * np.log(1 / gamma)))), for episodes >= 1
olop_horizon(m) == CeilLogRatio(0, m)

\* int(-inf) raises OverflowError: olop_horizon(0) does not return.
HorizonRaises(m) == m < 1

BreakConditionWeak(m, budget) == m * olop_horizon(m) >= budget

\* if episodes * olop_horizon(episodes, gamma) > budget
BreakCondition(m, budget) == m * olop_horizon(m) > budget

BackOffTwo(m) == m - 2

\* episodes -= 1
BackOff(m) == m - 1

AllocIdle ==
    /\ a_budget = 0 /\ a_pc = "idle" /\ a_next = 0 /\ episodes = 0
    /\ episodes_bound = FALSE /\ horizon = 0 /\ a_broke = FALSE

\* allocate(budget) entered with a scalar budget; range(1, budget) created.
AllocInit ==
    /\ a_budget \in 0..MaxBudget
    /\ a_pc = "loop"
    /\ a_next = 1
    /\ episodes = 0
    /\ episodes_bound = FALSE
    /\ horizon = 0
    /\ a_broke = FALSE

\* One iteration of "for episodes in range(1, budget)" that does not break.
AllocScan ==
    /\ a_pc = "loop"
    /\ a_next < a_budget
    /\ ~BreakCondition(a_next, a_budget)
    /\ episodes' = a_next
    /\ episodes_bound' = TRUE
    /\ a_next' = a_next + 1
    /\ UNCHANGED <<a_budget, a_pc, horizon, a_broke>>
    /\ UNCHANGED <<gridVars, mainVars, store, plotVars>>

\* The iteration whose test succeeds: episodes -= 1; break.
AllocBreak ==
    /\ a_pc = "loop"
    /\ a_next < a_budget
    /\ BreakCondition(a_next, a_budget)
    /\ episodes' = BackOff(a_next)
    /\ episodes_bound' = TRUE
    /\ a_broke' = TRUE
    /\ a_pc' = "after"
    /\ UNCHANGED <<a_budget, a_next, horizon>>
    /\ UNCHANGED <<gridVars, mainVars, store, plotVars>>

\* range(1, budget) is exhausted: the loop ends without break.
AllocExhaust ==
    /\ a_pc = "loop"
    /\ a_next >= a_budget
    /\ a_pc' = "after"
    /\ UNCHANGED <<a_budget, a_next, episodes, episodes_bound, horizon, a_broke>>
    /\ UNCHANGED <<gridVars, mainVars, store, plotVars>>

\* horizon = olop_horizon(episodes, gamma); return episodes, horizon
AllocReturn ==
    /\ a_pc = "after"
    /\ episodes_bound
    /\ ~HorizonRaises(episodes)
    /\ horizon' = olop_horizon(episodes)
    /\ a_pc' = "returned"
    /\ UNCHANGED <<a_budget, a_next, episodes, episodes_bound, a_broke>>
    /\ UNCHANGED <<gridVars, mainVars, store, plotVars>>

\* The same statement reading a name the loop never bound (UnboundLocalError),
\* or taking the logarithm of 0.
AllocRaise ==
    /\ a_pc = "after"
    /\ ~episodes_bound \/ HorizonRaises(episodes)
    /\ a_pc' = "raised"
    /\ UNCHANGED <<a_budget, a_next, episodes, episodes_bound, horizon, a_broke>>
    /\ UNCHANGED <<gridVars, mainVars, store, plotVars>>

-----------------------------------------------------------------------------
(* Strings are sequences of one-character strings, so that str.split and   *)
(* int() are computed, not assumed.                                        *)

DigitChars == <<"0", "1", "2", "3", "4", "5", "6", "7", "8", "9">>

Digit(n) == DigitChars[n + 1]

IsDigit(c) == \E i \in 1..Len(DigitChars) : DigitChars[i] = c

DigitVal(c) == (CHOOSE i \in 1..Len(DigitChars) : DigitChars[i] = c) - 1

\* Index of the first sep in s, 0 when there is none.
FirstIndex(s, sep) ==
    IF \E i \in 1..Len(s) : s[i] = sep
    THEN CHOOSE i \in 1..Len(s) : s[i] = sep /\ \A j \in 1..(i - 1) : s[j] # sep
    ELSE 0

\* s.split(sep)
RECURSIVE Split(_, _)
Split(s, sep) ==
    LET i == FirstIndex(s, sep)
    IN  IF i = 0 THEN <<s>>
        ELSE <<SubSeq(s, 1, i - 1)>> \o Split(SubSeq(s, i + 1, Len(s)), sep)

\* int(tok) raises ValueError unless tok is a run of digits (the inputs of
\* the model carry no sign, blank or underscore).
IntRaises(tok) == Len(tok) = 0 \/ \E i \in 1..Len(tok) : ~IsDigit(tok[i])

\* int(tok)
RECURSIVE IntOf(_)
IntOf(tok) ==
    IF Len(tok) = 0 THEN 0
    ELSE 10 * IntOf(SubSeq(tok, 1, Len(tok) - 1)) + DigitVal(tok[Len(tok)])

-----------------------------------------------------------------------------
(* The budgets: np.unique of np.logspace(...).astype(int), the arguments   *)
(* of logspace being literal_eval(budgets) unpacked.                       *)

\* literal_eval(budgets) raises on anything that is no literal; a lone
\* number evaluates to an int, which the star of the call cannot unpack;
\* one or two numbers leave logspace without its stop.  The model draws
\* triples and these malformed strings only.
BudgetsRaise(s) ==
    LET toks == Split(s, ",")
    IN  \/ \E i \in 1..Len(toks) : IntRaises(toks[i])
        \/ Len(toks) # 3

RECURSIVE Pow(_, _)
Pow(b, e) == IF e = 0 THEN 1 ELSE b * Pow(b, e - 1)

\* int(10 ** (p / q)) for p >= 0, q >= 1: the integer part of the power.
\* A whole exponent gives the exact power of ten.
IntPow10(p, q) ==
    IF p % q = 0 THEN Pow(10, p \div q)
    ELSE LET lo == Pow(10, p \div q)
         IN  CHOOSE k \in lo..(10 * lo - 1) :
                 Pow(k, q) <= Pow(10, p) /\ Pow(k + 1, q) > Pow(10, p)

\* np.logspace(start, stop, num).astype(int): point i of num has exponent
\* start + i * (stop - start) / (num - 1); a single point is 10 ** start.
\* Exponents here are never negative (start, stop >= 0).
Logspace(start, stop, num) ==
    [i \in 1..num |->
        IF num = 1 THEN Pow(10, start)
        ELSE IntPow10(start * (num - 1) + (i - 1) * (stop - start), num - 1)]

RECURSIVE SortedSeqOf(_)
SortedSeqOf(S) ==
    IF S = {} THEN <<>>
    ELSE LET m == CHOOSE x \in S : \A y \in S : x <= y
         IN  <<m>> \o SortedSeqOf(S \ {m})

NoUnique(xs) == xs

\* np.unique(xs): the sorted distinct values
Unique(xs) == SortedSeqOf({xs[i] : i \in 1..Len(xs)})

BudgetsOf(s) ==
    LET toks == Split(s, ",")
    IN  Unique(Logspace(IntOf(toks[1]), IntOf(toks[2]), IntOf(toks[3])))

-----------------------------------------------------------------------------
(* agent_configs(): the ordered registry.                                  *)

AllAgentNames ==
    <<"random", "olop", "kl-olop", "kl-olop-1", "laplace", "deterministic",
      "value_iteration">>

AgentNames == SubSeq(AllAgentNames, 1, MaxAgents)

\* A config dict, reduced to the two keys evaluate() assigns; a key that is
\* absent is <<>>, a key holding v is <<v>>.  Only value_iteration has
\* "iterations" in the registry: int(3 / (1 - gamma)).
AgentConfig(name) ==
    [budget |-> <<>>,
     iterations |-> IF name = "value_iteration"
                    THEN <<(3 * GammaDen) \div (GammaDen - GammaNum)>> ELSE <<>>]

\* OrderedDict(agents): position i holds (AgentNames[i], its dict).  The
\* dict's identity within one call of agent_configs() is its position.
agent_configs == [i \in 1..Len(AgentNames) |-> AgentConfig(AgentNames[i])]

EnvConfig == "configs/FiniteMDPEnv/env_garnet.json"

DataPath == "./out/planners/data.csv"

-----------------------------------------------------------------------------
(* prepare_experiments(budgets, seeds, path)                               *)

\* The int() calls of lines 159-160: seeds[0] only when there are exactly
\* two tokens, seeds[-1] always.
SeedsRaise(s) ==
    LET toks == Split(s, ",")
    IN  \/ Len(toks) = 2 /\ IntRaises(toks[1])
        \/ IntRaises(toks[Len(toks)])

\* first_seed: seeds[0] of a pair, else the number rnd drawn by
\* np.random.randint.
FirstSeed(s, rnd) ==
    LET toks == Split(s, ",")
    IN  IF Len(toks) = 2 THEN IntOf(toks[1]) ELSE rnd

SeedsCount(s) == LET toks == Split(s, ",") IN IntOf(toks[Len(toks)])

\* (first_seed + np.arange(seeds_count)).tolist()
SeedsOf(s, rnd) == [i \in 1..SeedsCount(s) |-> FirstSeed(s, rnd) + (i - 1)]

PrepareRaises(budgets, seeds) == BudgetsRaise(budgets) \/ SeedsRaise(seeds)

\* list(product(seeds, budgets, agents.items(), envs, paths)): the last
\* factor varies fastest.  cfg is the identity of the dict of the registry
\* the tuple refers to: product copies no dict.
Product(seedList, budgetList, path) ==
    LET A == Len(AgentNames)
        B == Len(budgetList)
    IN  [i \in 1..(Len(seedList) * B * A) |->
            [seed   |-> seedList[((i - 1) \div (B * A)) + 1],
             budget |-> budgetList[(((i - 1) \div A) % B) + 1],
             agent  |-> AgentNames[((i - 1) % A) + 1],
             cfg    |-> ((i - 1) % A) + 1,
             env    |-> EnvConfig,
             path   |-> path]]

prepare_experiments(budgets, seeds, path, rnd) ==
    Product(SeedsOf(seeds, rnd), BudgetsOf(budgets), path)

GridSeedSpecs ==
    {<<Digit(c)>> : c \in 0..MaxSeedCount}
    \cup {<<Digit(f), ",", Digit(c)>> : f \in 0..MaxFirstSeed, c \in 0..MaxSeedCount}
    \cup {<<"x">>, <<"1", ",", "x">>, <<"x", ",", "1">>, <<"0", ",", "1", ",", "2">>}

GridBudgetSpecs ==
    {<<Digit(s), ",", Digit(e), ",", Digit(n)>> :
        s \in 0..MaxExponent, e \in 0..MaxExponent, n \in 0..MaxPoints}
    \cup {<<"1">>, <<"x">>, <<"1", ",", "2">>}

GridIdle == g_budgets = <<>> /\ g_seeds = <<>> /\ calls = <<>>

GridInit ==
    /\ g_budgets \in GridBudgetSpecs
    /\ g_seeds \in GridSeedSpecs
    /\ calls = <<>>

\* A call of prepare_experiments that returns its list.
GridCallReturns ==
    /\ Len(calls) < MaxCalls
    /\ ~PrepareRaises(g_budgets, g_seeds)
    /\ \E rnd \in 0..MaxFirstSeed :
          calls' = Append(calls,
                     [raised |-> FALSE,
                      value  |-> prepare_experiments(g_budgets, g_seeds, DataPath, rnd)])
    /\ UNCHANGED <<g_budgets, g_seeds>>
    /\ UNCHANGED <<allocVars, mainVars, store, plotVars>>

\* A call of prepare_experiments that raises while parsing its arguments.
GridCallRaises ==
    /\ Len(calls) < MaxCalls
    /\ PrepareRaises(g_budgets, g_seeds)
    /\ calls' = Append(calls, [raised |-> TRUE, value |-> <<>>])
    /\ UNCHANGED <<g_budgets, g_seeds>>
    /\ UNCHANGED <<allocVars, mainVars, store, plotVars>>

-----------------------------------------------------------------------------
(* The result store: the csv file at --data_path, a sequence of lines.     *)
(* A line carries the six columns; by is not in the file: it records the   *)
(* trial whose to_csv call wrote the line (0: the line was there before).  *)

\* The header line: the column names.  Its agent cell reads "agent".
HeaderLine(by) ==
    [agent |-> "agent", budget |-> 0, seed |-> 0, action_value |-> 0,
     value |-> 0, action |-> 0, by |-> by]

IsHeader(line) == line.agent = "agent"

\* A data line left in the store by an earlier run.
OldLine(action_value, value) ==
    [agent |-> "random", budget |-> 1, seed |-> 0, action_value |-> action_value,
     value |-> value, action |-> 0, by |-> 0]

\* open(path, 'a'): the position of the new file object is the end of the
\* file as it is at the open; f.tell() returns it.
FileOpenAppend(st) == Len(st)

FileWriteAtPos(st, at, lines) ==
    SubSeq(st, 1, at) \o lines \o SubSeq(st, at + Len(lines) + 1, Len(st))

\* The flush of the buffered text at the close of an append-mode file: one
\* write that lands at the end of the file as it is then, wherever the
\* file object's own position is.
FileWrite(st, at, lines) == st \o lines

\* df.to_csv(f, header=f.tell() == 0, index=False): the header line when
\* asked for, then the one record; by is the trial making the call.
to_csv(row, header, by) ==
    LET line == [row EXCEPT !.by = by]
    IN  IF header THEN <<HeaderLine(by), line>> ELSE <<line>>

-----------------------------------------------------------------------------
(* The collaborators of evaluate(): environment, agent and oracle.  They   *)
(* are deterministic in the seed and the config.                           *)

EnvMaxSteps == 3

NumActions == 2

\* state_action_value()[env.mdp.state, :] of the value_iteration oracle
OracleValues(seed) == [a \in 1..NumActions |-> IF a = 1 THEN seed % 2 ELSE 1]

\* agent.act(state)
AgentAct(agent, budget, seed) == ((seed + budget + Len(agent)) % NumActions) + 1

\* np.amax(values)
Amax(values) ==
    CHOOSE v \in {values[a] : a \in DOMAIN values} :
        \A a \in DOMAIN values : values[a] <= v

\* The dict result of lines 141-148, as the line to_csv makes of it.
ResultOf(d) ==
    LET values == OracleValues(d.seed)
        action == AgentAct(d.agent, d.budget, d.seed)
    IN  [agent |-> d.agent, budget |-> d.budget, seed |-> d.seed,
         action_value |-> values[action], value |-> Amax(values),
         action |-> action, by |-> 0]

NoResult ==
    [agent |-> "", budget |-> 0, seed |-> 0, action_value |-> 0, value |-> 0,
     action |-> 0, by |-> 0]

\* agent_config["budget"] = int(budget); agent_config["iterations"] = ...
\* assigned in the dict the descriptor refers to.
Inject(h, d) ==
    [h EXCEPT ![d.cfg] = [budget |-> <<d.budget>>, iterations |-> <<EnvMaxSteps>>]]

PcAfterSwallowed(raises) == "open"

\* Where evaluate() is after lines 109-150: an exception has left the
\* function before the open and the write; else the store is open.
PcAfter(raises) == IF raises THEN "failed" ELSE "open"

-----------------------------------------------------------------------------
(* Pool.map(evaluate, experiments, chunksize)                              *)

\* chunksize = int(args["--chunksize"]) if args["--chunksize"] else None;
\* Pool.map then takes ceil(n / (4 * processes)) for None, and 0 for an
\* empty list.
EffectiveChunksize(n, processes, chunksize) ==
    IF n = 0 THEN 0
    ELSE IF chunksize = <<>>
         THEN (n \div (processes * 4)) + (IF n % (processes * 4) # 0 THEN 1 ELSE 0)
         ELSE IntOf(chunksize)

\* Pool._get_tasks: successive slices of size items of the list, until a
\* slice is empty; a size of 0 gives no task at all.  A task is the list
\* of the positions of its descriptors in experiments.
GetTasks(n, size) ==
    IF size <= 0 THEN <<>>
    ELSE [k \in 1..((n + size - 1) \div size) |->
            [j \in 1..(IF k * size <= n THEN size ELSE n - (k - 1) * size) |->
                (k - 1) * size + j]]

Workers == 1..MaxProcesses

MainSeedSpecs == {<<"0", ",", "1">>, <<"x">>, <<"0", ",", "0", ",", "1">>}

MainBudgetSpecs ==
    {<<"0", ",", "1", ",", "2">>, <<"0", ",", "0", ",", "2">>, <<"1">>}

ChunksizeArgs == {<<>>} \cup {<<Digit(c)>> : c \in 0..MaxChunksize}

InitialStores == {<<>>, <<HeaderLine(0), OldLine(0, 1)>>}

PoolIdle ==
    /\ taskqueue = <<>> /\ chunks_left = 0 /\ failure = FALSE
    /\ wpc = [w \in Workers |-> "none"]
    /\ wchunk = [w \in Workers |-> <<>>]
    /\ witem = [w \in Workers |-> 0]
    /\ heap = [w \in Workers |-> <<>>]
    /\ pos = [w \in Workers |-> 0]
    /\ result = [w \in Workers |-> NoResult]
    /\ exec_count = <<>>
    /\ raised_trials = {}

MainIdle ==
    /\ args = [budgets |-> <<>>, seeds |-> <<>>, processes |-> <<>>,
               chunksize |-> <<>>, data_path |-> DataPath]
    /\ mainpc = "idle" /\ experiments = <<>> /\ store0 = <<>>
    /\ PoolIdle

PlotIdle == plotpc = "idle" /\ table = <<>>

\* main(args) entered with --generate True and --show True (the defaults).
MainInit ==
    /\ args \in [budgets : MainBudgetSpecs, seeds : MainSeedSpecs,
                  processes : {<<Digit(p)>> : p \in 1..MaxProcesses},
                  chunksize : ChunksizeArgs, data_path : {DataPath}]
    /\ mainpc = "start"
    /\ experiments = <<>>
    /\ store \in InitialStores
    /\ store0 = store
    /\ PoolIdle

\* prepare_experiments raises: main ends before the pool exists.
MainConfigError ==
    /\ mainpc = "start"
    /\ PrepareRaises(args.budgets, args.seeds)
    /\ mainpc' = "raised"
    /\ UNCHANGED <<args, experiments, poolVars, store0, store>>
    /\ UNCHANGED <<plotVars, allocVars, gridVars>>

\* Lines 197-200 up to the hand-over of the tasks: the grid is built, the
\* pool forks its workers, map queues the chunks.
MainGenerate ==
    /\ mainpc = "start"
    /\ ~PrepareRaises(args.budgets, args.seeds)
    /\ \E rnd \in 0..MaxFirstSeed :
          LET exps == prepare_experiments(args.budgets, args.seeds, args.data_path, rnd)
              procs == IntOf(args.processes)
              tasks == GetTasks(Len(exps),
                                EffectiveChunksize(Len(exps), procs, args.chunksize))
          IN  /\ experiments' = exps
              /\ taskqueue' = tasks
              /\ chunks_left' = Len(tasks)
              /\ exec_count' = [i \in 1..Len(exps) |-> 0]
              /\ wpc' = [w \in Workers |-> IF w <= procs THEN "idle" ELSE "none"]
    /\ mainpc' = "map"
    /\ UNCHANGED <<args, failure, wchunk, witem, heap, pos, result, raised_trials,
                   store0, store>>
    /\ UNCHANGED <<plotVars, allocVars, gridVars>>

\* A worker gets the next task and unpickles it: its descriptors refer to
\* fresh copies of the dicts, shared among them as they were in the parent.
WorkerTake(w) ==
    /\ mainpc = "map"
    /\ wpc[w] = "idle"
    /\ taskqueue # <<>>
    /\ wchunk' = [wchunk EXCEPT ![w] = Head(taskqueue)]
    /\ taskqueue' = Tail(taskqueue)
    /\ witem' = [witem EXCEPT ![w] = 1]
    /\ heap' = [heap EXCEPT ![w] = agent_configs]
    /\ wpc' = [wpc EXCEPT ![w] = "compute"]
    /\ UNCHANGED <<args, mainpc, experiments, chunks_left, failure, pos, result,
                   exec_count, raised_trials, store0, store>>
    /\ UNCHANGED <<plotVars, allocVars, gridVars>>

\* The descriptor worker w is running: its position in experiments.
Running(w) == wchunk[w][witem[w]]

\* A task ends: the worker reports it and releases its objects.
TaskDone(w) ==
    /\ chunks_left' = chunks_left - 1
    /\ wpc' = [wpc EXCEPT ![w] = "idle"]
    /\ wchunk' = [wchunk EXCEPT ![w] = <<>>]
    /\ witem' = [witem EXCEPT ![w] = 0]
    /\ heap' = [heap EXCEPT ![w] = <<>>]

\* evaluate(), lines 109-138, raises: in load_environment, env.seed or
\* env.reset, or, the config patched, in agent_factory, agent.act or the
\* oracle.  The exception leaves evaluate and mapstar: the rest of the task
\* is not run and the worker reports the failure.
EvalRaises(w) ==
    /\ mainpc = "map"
    /\ wpc[w] = "compute"
    /\ Cardinality(raised_trials) < MaxFailures
    /\ exec_count' = [exec_count EXCEPT ![Running(w)] = @ + 1]
    /\ raised_trials' = raised_trials \cup {Running(w)}
    /\ IF PcAfter(TRUE) = "failed"
       THEN /\ failure' = TRUE
            /\ TaskDone(w)
            /\ UNCHANGED pos
       ELSE /\ wpc' = [wpc EXCEPT ![w] = PcAfter(TRUE)]
            /\ pos' = [pos EXCEPT ![w] = FileOpenAppend(store)]
            /\ UNCHANGED <<failure, chunks_left, wchunk, witem, heap>>
    /\ UNCHANGED <<args, mainpc, experiments, taskqueue, result, store0, store>>
    /\ UNCHANGED <<plotVars, allocVars, gridVars>>

\* evaluate(), lines 109-150 and the argument f.tell() of line 151: the
\* config is patched, the agent plans, the oracle gives the values, the
\* one-record frame is built, the store is opened for appending.
EvalPlans(w) ==
    /\ mainpc = "map"
    /\ wpc[w] = "compute"
    /\ exec_count' = [exec_count EXCEPT ![Running(w)] = @ + 1]
    /\ heap' = [heap EXCEPT ![w] = Inject(@, experiments[Running(w)])]
    /\ result' = [result EXCEPT ![w] = ResultOf(experiments[Running(w)])]
    /\ pos' = [pos EXCEPT ![w] = FileOpenAppend(store)]
    /\ wpc' = [wpc EXCEPT ![w] = PcAfter(FALSE)]
    /\ UNCHANGED <<args, mainpc, experiments, taskqueue, chunks_left, failure, wchunk,
                   witem, raised_trials, store0, store>>
    /\ UNCHANGED <<plotVars, allocVars, gridVars>>

\* evaluate(), line 151 and the close of the file; evaluate returns and its
\* locals are gone; mapstar goes on to the next descriptor of the task, or
\* the task is reported and its objects are released.
EvalWrite(w) ==
    /\ mainpc = "map"
    /\ wpc[w] = "open"
    /\ store' = FileWrite(store, pos[w], to_csv(result[w], pos[w] = 0, Running(w)))
    /\ pos' = [pos EXCEPT ![w] = 0]
    /\ result' = [result EXCEPT ![w] = NoResult]
    /\ IF witem[w] < Len(wchunk[w])
       THEN /\ witem' = [witem EXCEPT ![w] = @ + 1]
            /\ wpc' = [wpc EXCEPT ![w] = "compute"]
            /\ UNCHANGED <<chunks_left, wchunk, heap>>
       ELSE TaskDone(w)
    /\ UNCHANGED <<args, mainpc, experiments, taskqueue, failure, exec_count,
                   raised_trials, store0>>
    /\ UNCHANGED <<plotVars, allocVars, gridVars>>

\* Pool.terminate() at the end of the with block: the worker processes
\* die where they are, and their memory with them.
PoolTerminated ==
    /\ wpc' = [w \in Workers |-> IF wpc[w] = "none" THEN "none" ELSE "dead"]
    /\ wchunk' = [w \in Workers |-> <<>>]
    /\ witem' = [w \in Workers |-> 0]
    /\ heap' = [w \in Workers |-> <<>>]
    /\ pos' = [w \in Workers |-> 0]
    /\ result' = [w \in Workers |-> NoResult]

\* map re-raises the failure in main and the with block terminates the
\* pool: at the first failure or once every task has reported, depending
\* on the interpreter.
MainMapRaises ==
    /\ mainpc = "map"
    /\ failure
    /\ mainpc' = "raised"
    /\ taskqueue' = <<>>
    /\ chunks_left' = 0
    /\ PoolTerminated
    /\ UNCHANGED <<args, experiments, failure, exec_count, raised_trials, store0,
                   store>>
    /\ UNCHANGED <<plotVars, allocVars, gridVars>>

\* map returns: every task has reported and none failed.
MainMapReturns ==
    /\ mainpc = "map"
    /\ chunks_left = 0
    /\ ~failure
    /\ mainpc' = "show"
    /\ PoolTerminated
    /\ UNCHANGED <<args, experiments, taskqueue, chunks_left, failure, exec_count,
                   raised_trials, store0, store>>
    /\ UNCHANGED <<plotVars, allocVars, gridVars>>

-----------------------------------------------------------------------------
(* plot_all(data_path, plot_path, data_range), up to the regret column.    *)

\* pd.read_csv raises on a missing or empty file; the first line names the
\* columns, and df.agent raises unless there is a column agent.
ReadCsvRaises(st) == IF Len(st) = 0 THEN TRUE ELSE ~IsHeader(st[1])

\* df[~df.agent.isin(['agent'])]: the lines after the first whose agent
\* cell does not read "agent".
DataRows(st) == SelectSeq(Tail(st), LAMBDA line : ~IsHeader(line))

\* df["regret"] = df["value"] - df["action_value"]
WithRegret(line) ==
    [agent |-> line.agent, budget |-> line.budget, seed |-> line.seed,
     action_value |-> line.action_value, value |-> line.value,
     action |-> line.action, regret |-> line.value - line.action_value]

RegretTable(st) == [i \in 1..Len(DataRows(st)) |-> WithRegret(DataRows(st)[i])]

PlotLines == {HeaderLine(0)} \cup {OldLine(av, v) : av \in 0..1, v \in 0..1}

SeqsUpTo(S, n) == UNION {[1..k -> S] : k \in 0..n}

\* plot_all entered on whatever file is at data_path.
PlotInit ==
    /\ store \in SeqsUpTo(PlotLines, MaxLines)
    /\ plotpc = "start"
    /\ table = <<>>

\* plot_all reads the store, derives the regret column and goes on to plot.
PlotReturns ==
    /\ plotpc = "start"
    /\ ~ReadCsvRaises(store)
    /\ table' = RegretTable(store)
    /\ plotpc' = "returned"
    /\ UNCHANGED <<allocVars, gridVars, mainVars, store>>

\* plot_all raises while reading the store.
PlotRaises ==
    /\ plotpc = "start"
    /\ ReadCsvRaises(store)
    /\ plotpc' = "raised"
    /\ UNCHANGED <<allocVars, gridVars, mainVars, store, table>>

\* main, line 202: plot_all is called once the batch is done.
MainShow ==
    /\ mainpc = "show"
    /\ mainpc' = "plot"
    /\ plotpc' = "start"
    /\ UNCHANGED <<args, experiments, poolVars, store0, store, table, allocVars,
                   gridVars>>

-----------------------------------------------------------------------------
(* The specifications.                                                     *)

NextAlloc == AllocScan \/ AllocBreak \/ AllocExhaust \/ AllocReturn \/ AllocRaise

InitAlloc == AllocInit /\ GridIdle /\ MainIdle /\ store = <<>> /\ PlotIdle

SpecAlloc == InitAlloc /\ [][NextAlloc]_vars

NextGrid == GridCallReturns \/ GridCallRaises

InitGrid == AllocIdle /\ GridInit /\ MainIdle /\ store = <<>> /\ PlotIdle

SpecGrid == InitGrid /\ [][NextGrid]_vars

NextPlot == PlotReturns \/ PlotRaises

InitPlot == AllocIdle /\ GridIdle /\ MainIdle /\ PlotInit

SpecPlot == InitPlot /\ [][NextPlot]_vars

Next ==
    \/ MainConfigError
    \/ MainGenerate
    \/ \E w \in Workers :
          \/ WorkerTake(w)
          \/ EvalRaises(w)
          \/ EvalPlans(w)
          \/ EvalWrite(w)
    \/ MainMapRaises
    \/ MainMapReturns
    \/ MainShow
    \/ PlotReturns
    \/ PlotRaises

Init == AllocIdle /\ GridIdle /\ MainInit /\ PlotIdle

Spec == Init /\ [][Next]_vars

-----------------------------------------------------------------------------
(* Properties of allocate (checked under SpecAlloc).                       *)

\* C4: whenever allocate(n), n >= 1, returns (M, L): L = olop_horizon(M),
\* M * L <= n, and every M' > M has M' * olop_horizon(M') > n.
AllocLargestFeasible ==
    (a_pc = "returned" /\ a_budget >= 1) =>
        /\ episodes >= 1
        /\ horizon = olop_horizon(episodes)
        /\ episodes * horizon <= a_budget
        /\ \A m \in (episodes + 1)..(a_budget + 1) :
               m * olop_horizon(m) > a_budget

\* allocate has returned after a scan that went through several
\* candidates and left through its break.
AllocLargestFeasibleWitness ==
    a_pc = "returned" /\ a_broke /\ episodes >= 4 /\ episodes * horizon < a_budget

\* C5, as stated: whenever allocate(n) returns (M, L),
\* M * olop_horizon(M + 1) > n.
AllocTightAsStated ==
    a_pc = "returned" => episodes * olop_horizon(episodes + 1) > a_budget

\* C5, amended: whenever allocate(n) returns (M, L),
\* (M + 1) * olop_horizon(M + 1) > n.
AllocTight ==
    a_pc = "returned" => (episodes + 1) * olop_horizon(episodes + 1) > a_budget

\* allocate has returned a pair for which the stated product is within
\* the budget while the next episode count is not feasible.
AllocTightWitness ==
    /\ a_pc = "returned"
    /\ episodes >= 2
    /\ episodes * olop_horizon(episodes + 1) <= a_budget

\* C10: for a budget n >= 1 whose scan never breaks, allocate returns
\* normally with M = 1 and L = 0.
AllocMinimalReturns ==
    (a_budget >= 1 /\ a_pc \in {"returned", "raised"} /\ ~a_broke) =>
        (a_pc = "returned" /\ episodes = 1 /\ horizon = 0)

-----------------------------------------------------------------------------
(* Properties of prepare_experiments (checked under SpecGrid).             *)

IsPairSpec(s) == Len(Split(s, ",")) = 2

\* The integer parts of the log-spaced points, as a set.
ExpectedBudgets(s) ==
    LET toks == Split(s, ",")
        pts  == Logspace(IntOf(toks[1]), IntOf(toks[2]), IntOf(toks[3]))
    IN  {pts[i] : i \in 1..Len(pts)}

AgentIndex(name) == CHOOSE i \in 1..Len(AgentNames) : AgentNames[i] = name

\* Descriptor d comes before descriptor e: seed, then budget, then the
\* agent's place in the registry.
ComesBefore(d, e) ==
    \/ d.seed < e.seed
    \/ d.seed = e.seed /\ d.budget < e.budget
    \/ d.seed = e.seed /\ d.budget = e.budget
          /\ AgentIndex(d.agent) < AgentIndex(e.agent)

\* C6: for a seed spec 'first,count', a call that returns gives exactly
\* one descriptor per (seed, distinct budget, registry agent), with the
\* one environment and the given path, in ascending seed, budget and
\* registry order, and every call gives the same list.
GridIsProduct ==
    \A c \in 1..Len(calls) :
        (~calls[c].raised /\ IsPairSpec(g_seeds)) =>
            LET v     == calls[c].value
                first == IntOf(Split(g_seeds, ",")[1])
                count == IntOf(Split(g_seeds, ",")[2])
                B     == ExpectedBudgets(g_budgets)
                A     == Len(AgentNames)
            IN  /\ Len(v) = count * Cardinality(B) * A
                /\ \A i \in 1..Len(v) :
                       /\ v[i].seed \in first..(first + count - 1)
                       /\ v[i].budget \in B
                       /\ v[i].cfg \in 1..A
                       /\ v[i].agent = AgentNames[v[i].cfg]
                       /\ v[i].env = EnvConfig
                       /\ v[i].path = DataPath
                /\ \A sd \in first..(first + count - 1), b \in B, a \in 1..A :
                       \E i \in 1..Len(v) :
                           v[i].seed = sd /\ v[i].budget = b /\ v[i].cfg = a
                /\ \A i \in 1..Len(v), j \in 1..Len(v) :
                       i < j => ComesBefore(v[i], v[j])
                /\ \A c2 \in 1..Len(calls) :
                       ~calls[c2].raised => calls[c2].value = v

\* Two calls with budgets "1,2,3" and seeds "0,2" have returned the twelve
\* descriptors of seeds {0, 1}, budgets {10, 31, 100} and two agents.
GridIsProductWitness ==
    /\ Len(calls) = 2
    /\ g_budgets = <<"1", ",", "2", ",", "3">>
    /\ g_seeds = <<"0", ",", "2">>
    /\ ~calls[1].raised /\ ~calls[2].raised
    /\ Len(calls[2].value) = 6 * Len(AgentNames)
    /\ {calls[2].value[i].budget : i \in 1..Len(calls[2].value)} = {10, 31, 100}

-----------------------------------------------------------------------------
(* Properties of main (checked under Spec).                                *)

HeaderCount(st) == Cardinality({k \in 1..Len(st) : IsHeader(st[k])})

\* C1: a store that was absent or empty holds the header line exactly once
\* as soon as it holds anything, whatever the interleaving of the appends;
\* a store that was not empty never gets a further header line.
HeaderOnce ==
    IF Len(store0) = 0
    THEN HeaderCount(store) = (IF Len(store) = 0 THEN 0 ELSE 1)
    ELSE HeaderCount(store) = HeaderCount(store0)

\* Pool.map has returned to main without raising.
MapReturned == mainpc \in {"show", "plot"}

\* The positions of the data lines appended to the store by this run.
AppendedRows == {k \in (Len(store0) + 1)..Len(store) : ~IsHeader(store[k])}

\* The store has kept what it had and gained, for every descriptor, one
\* data line with its agent, budget and seed, that line being the whole
\* record of its trial; every descriptor was run once.
OneRowPerDescriptor ==
    /\ Len(store) >= Len(store0)
    /\ SubSeq(store, 1, Len(store0)) = store0
    /\ Cardinality(AppendedRows) = Len(experiments)
    /\ \A i \in 1..Len(experiments) :
           /\ exec_count[i] = 1
           /\ Cardinality({k \in AppendedRows :
                              /\ store[k].agent = experiments[i].agent
                              /\ store[k].budget = experiments[i].budget
                              /\ store[k].seed = experiments[i].seed}) = 1
           /\ \E k \in AppendedRows :
                  store[k] = [ResultOf(experiments[i]) EXCEPT !.by = i]

\* C2, as stated: when the batch completes without a failed trial, for any
\* number of processes and any chunk size, every descriptor has been run
\* exactly once and the store has gained exactly one row for each.
BatchRowsAnyChunksize == MapReturned => OneRowPerDescriptor

ChunksizeAtLeastOne ==
    IF Len(args.chunksize) = 0 THEN TRUE ELSE IntOf(args.chunksize) >= 1

\* C2, amended: no descriptor is ever run twice, and when the batch
\* completes without a failed trial, for any number of processes and any
\* chunk size that is not given or at least 1, every descriptor has been
\* run exactly once and the store has gained exactly one row for each.
BatchRows ==
    /\ \A i \in 1..Len(exec_count) : exec_count[i] <= 1
    /\ (MapReturned /\ ChunksizeAtLeastOne) => OneRowPerDescriptor

\* A batch of four trials run by two processes has completed, and its
\* rows are in the store in another order than the descriptors.
BatchRowsWitness ==
    /\ MapReturned
    /\ Len(experiments) >= 4
    /\ IntOf(args.processes) >= 2
    /\ \E k \in AppendedRows, l \in AppendedRows :
           k < l /\ store[k].by > store[l].by

\* C3: while a worker runs a task, the descriptors of the task that
\* evaluate() has not been called on still hold the config the registry
\* gave them: running one descriptor changes no other descriptor's config.
ConfigIsolation ==
    \A w \in Workers :
        wpc[w] \in {"compute", "open"} =>
            \A j \in 1..Len(wchunk[w]) :
                (j > witem[w] \/ (j = witem[w] /\ wpc[w] = "compute")) =>
                    LET d == experiments[wchunk[w][j]]
                    IN  heap[w][d.cfg] = agent_configs[d.cfg]

\* C7: no line of the store was written by a trial whose evaluate()
\* raised, and what the store held before is still there.
FailedTrialWritesNothing ==
    /\ \A i \in raised_trials :
           \A k \in 1..Len(store) : store[k].by # i
    /\ Len(store) >= Len(store0)
    /\ SubSeq(store, 1, Len(store0)) = store0

\* A trial has raised while the batch has appended to the store and
\* another trial has the store open.
FailedTrialWitness ==
    /\ raised_trials # {}
    /\ Len(store) > Len(store0)
    /\ \E w \in Workers : wpc[w] = "open"

WellFormedSeeds(s) ==
    LET toks == Split(s, ",")
    IN  Len(toks) \in {1, 2} /\ \A i \in 1..Len(toks) : ~IntRaises(toks[i])

WellFormedBudgets(s) ==
    LET toks == Split(s, ",")
    IN  Len(toks) = 3 /\ \A i \in 1..Len(toks) : ~IntRaises(toks[i])

\* C8: when the budget spec is no triple of numbers or the seed spec is
\* neither a count nor a 'first_seed,count' pair, main raises before any
\* evaluate() call starts and before the store changes.
ConfigErrorsFailFast ==
    (mainpc # "idle"
     /\ ~(WellFormedSeeds(args.seeds) /\ WellFormedBudgets(args.budgets))) =>
        /\ mainpc \in {"start", "raised"}
        /\ \A i \in 1..Len(exec_count) : exec_count[i] = 0
        /\ store = store0

-----------------------------------------------------------------------------
(* Property of plot_all (checked under SpecPlot).                          *)

\* C9: plot_all does not return with a row of negative regret in its
\* regret-augmented table: such a row is flagged to the caller.
NegativeRegretFlagged ==
    plotpc = "returned" => \A k \in 1..Len(table) : table[k].regret >= 0

=============================================================================
